---------------------------- MODULE Spec2Model ----------------------------
(***************************************************************************)
(* A model of the two screens of imnb57/pdfmaker.                          *)
(*                                                                         *)
(*   src/draft.js          App: one-shot picker, createPdf, and the        *)
(*                         recent-PDF registry (load/share/delete/clear).  *)
(*   src/unnamed/part_001  PDFConverter: album browser with the 20-image   *)
(*                         selection cap.                                  *)
(*                                                                         *)
(* Strings are sequences of one-character strings, so that endsWith,       *)
(* toLowerCase, split('/').pop(), the regular expression of                *)
(* generateNextPdfName and the template `File ${n}.pdf` are computed, not  *)
(* assumed.                                                                *)
(*                                                                         *)
(* An async handler is cut at its awaits on platform calls: one action is  *)
(* the settling of the awaited call (with its effect on storage) followed  *)
(* by the handler's code up to its next await.  A failure of a platform    *)
(* call is a nondeterministic outcome of the action.                       *)
(***************************************************************************)
EXTENDS Integers, Sequences, FiniteSets, TLC

(***************************************************************************)
(* Bounds of the model.                                                    *)
(***************************************************************************)
\* createPdf is not started once the next file number would exceed this
MaxFileNo == 2
\* times a handler is started while another one awaits a platform call
MaxOverlaps == 1
\* images the picker returns at most
MaxPicked == 2

(***************************************************************************)
(* Strings.                                                                *)
(***************************************************************************)
Digits == <<"0", "1", "2", "3", "4", "5", "6", "7", "8", "9">>

IsDigit(c) == \E i \in 1..10 : Digits[i] = c

DigitVal(c) == (CHOOSE i \in 1..10 : Digits[i] = c) - 1

\* String.prototype.endsWith
EndsWith(s, suf) ==
    /\ Len(suf) <= Len(s)
    /\ SubSeq(s, Len(s) - Len(suf) + 1, Len(s)) = suf

\* the letters that occur in upper case in the model's strings
UpperCase == <<"F", "J", "P", "G", "N", "E">>

LowerCase == <<"f", "j", "p", "g", "n", "e">>

LowerChar(c) ==
    IF \E i \in 1..Len(UpperCase) : UpperCase[i] = c
    THEN LowerCase[CHOOSE i \in 1..Len(UpperCase) : UpperCase[i] = c]
    ELSE c

\* String.prototype.toLowerCase
ToLowerCase(s) == [i \in 1..Len(s) |-> LowerChar(s[i])]

\* file.split('/').pop(): what follows the last '/'
SplitPop(s) ==
    LET slashes == {i \in 1..Len(s) : s[i] = "/"}
    IN  IF slashes = {} THEN s
        ELSE SubSeq(s, (CHOOSE i \in slashes : \A j \in slashes : j <= i) + 1, Len(s))

\* parseInt(digits, 10) of a non-empty string of digits
RECURSIVE ParseInt(_)
ParseInt(ds) ==
    IF ds = <<>> THEN 0
    ELSE 10 * ParseInt(SubSeq(ds, 1, Len(ds) - 1)) + DigitVal(ds[Len(ds)])

\* `${n}` of a non-negative integer
RECURSIVE NumToString(_)
NumToString(n) ==
    IF n < 10 THEN <<Digits[n + 1]>>
    ELSE NumToString(n \div 10) \o <<Digits[(n % 10) + 1]>>

FilePrefix == <<"F", "i", "l", "e", " ">>

PdfSuffix == <<".", "p", "d", "f">>

\* file.match(/File (\d+)\.pdf$/): <<>> for null, else <<the group (\d+)>>.
\* The expression is anchored at the end only: the match may start anywhere.
RegexMatchAnywhere(file) ==
    LET n == Len(file)
        starts == {i \in 1..n :
                     /\ i + Len(FilePrefix) + Len(PdfSuffix) <= n
                     /\ SubSeq(file, i, i + Len(FilePrefix) - 1) = FilePrefix
                     /\ EndsWith(file, PdfSuffix)
                     /\ \A j \in (i + Len(FilePrefix))..(n - Len(PdfSuffix)) :
                            IsDigit(file[j])}
    IN  IF starts = {} THEN <<>>
        ELSE LET i == CHOOSE k \in starts : \A l \in starts : k <= l
             IN  <<SubSeq(file, i + Len(FilePrefix), n - Len(PdfSuffix))>>

\* the same with the expression anchored at both ends, /^File (\d+)\.pdf$/
RegexMatchWhole(file) ==
    LET m == RegexMatchAnywhere(file)
    IN  IF m # <<>> /\ Len(m[1]) + Len(FilePrefix) + Len(PdfSuffix) = Len(file)
        THEN m ELSE <<>>

RegexMatch(file) == RegexMatchAnywhere(file)

\* existingFiles.map(match ? parseInt(match[1], 10) : null).filter(num !== null)
\* null is <<>> and a number n is <<n>> before the filter
PdfNumbers(existingFiles) ==
    LET mapped == [i \in 1..Len(existingFiles) |->
                     LET match == RegexMatch(existingFiles[i])
                     IN  IF match # <<>> THEN <<ParseInt(match[1])>> ELSE <<>>]
        NotNull(num) == num # <<>>
        kept == SelectSeq(mapped, NotNull)
    IN  [i \in 1..Len(kept) |-> kept[i][1]]

\* Math.max(...nums) of a non-empty list
MathMax(nums) ==
    CHOOSE m \in {nums[i] : i \in 1..Len(nums)} : \A i \in 1..Len(nums) : nums[i] <= m

\* a variant that counts the numbers instead of taking their maximum
NextNumberByCount(pdfNumbers) == Len(pdfNumbers) + 1

NextNumber(pdfNumbers) ==
    IF Len(pdfNumbers) > 0 THEN MathMax(pdfNumbers) + 1 ELSE 1

\* `File ${nextNumber}.pdf`
PdfNameOf(n) == FilePrefix \o NumToString(n) \o PdfSuffix

generateNextPdfName(existingFiles) == PdfNameOf(NextNumber(PdfNumbers(existingFiles)))

\* `${FileSystem.documentDirectory}recent_pdfs/`
pdfDir == <<"d", "o", "c", "/", "r", "e", "c", "e", "n", "t", "_", "p", "d", "f", "s", "/">>

\* recentPdfs.map((file) => file.split('/').pop())
BaseNames(paths) == [i \in 1..Len(paths) |-> SplitPop(paths[i])]

(***************************************************************************)
(* The state of App (src/draft.js) and of the platform it calls.           *)
(***************************************************************************)
VARIABLES
    library,        \* the photos of the device the picker offers
    images,         \* useState([]): the selection
    recentPdfs,     \* useState([]): the registry, a list of paths
    isLoading,      \* useState(false)
    progress,       \* useState(0), as <<numerator, denominator>>
    alert,          \* the last Alert.alert shown
    disk,           \* the files of recent_pdfs/: name -> bytes
    mediaAssets,    \* the paths MediaLibrary.createAssetAsync registered
    pcLoad,         \* where loadRecentPdfs stands
    pcCreate,       \* where createPdf stands
    imgIdx,         \* createPdf: i + 1 of the image being read
    pdfDoc,         \* createPdf: the pages added so far
    closurePdfs,    \* createPdf: recentPdfs as rendered when it was called
    pdfUri,         \* createPdf: the path chosen, <<>> before that
    deleting,       \* the paths of the deletePdf calls awaiting deleteAsync
    pcClear,        \* where clearAllPdfs stands
    clearDeletes,   \* the deleteAsync calls clearAllPdfs issued, not settled yet
    overlaps,       \* the handlers started so far while another one was awaiting
    optimizing,     \* selectImages: the optimizeImage calls of the Promise.all
    \* the state of PDFConverter (src/unnamed/part_001)
    selectedImages,         \* useState([])
    availableImages,        \* useState([]): the grid of the modal
    isSelectModalVisible,   \* useState(false)
    presses,                \* the presses on the selection so far
    albums,                 \* useState([])
    selectedAlbum,          \* useState(null)
    pcAlbums,               \* where loadAlbums stands
    autoLoad                \* the album loadAlbums gave loadAlbumImages, call pending

appVars == <<library, images, recentPdfs, isLoading, progress, alert, disk,
             mediaAssets, pcLoad, pcCreate, imgIdx, pdfDoc, closurePdfs, pdfUri,
             deleting, pcClear, clearDeletes, overlaps, optimizing>>

createLocals == <<imgIdx, pdfDoc, closurePdfs, pdfUri>>

albumListVars == <<albums, selectedAlbum, pcAlbums, autoLoad>>

albumVars == <<selectedImages, availableImages, isSelectModalVisible, presses,
               albumListVars>>

vars == <<appVars, albumVars>>

(***************************************************************************)
(* Sequences and files.                                                    *)
(***************************************************************************)
Range(s) == {s[i] : i \in 1..Len(s)}

\* the orders in which a listing may return the names of S
Perms(S) == {s \in [1..Cardinality(S) -> S] : \A x \in S : \E i \in DOMAIN s : s[i] = x}

\* the sequences of length 1..n of distinct members of S
DistinctSeqs(S, n) ==
    UNION {{s \in [1..k -> S] : \A i, j \in 1..k : i # j => s[i] # s[j]} : k \in 1..n}

\* the file `name` of the directory (over)written with `bytes`
WriteFile(d, name, bytes) ==
    [n \in DOMAIN d \cup {name} |-> IF n = name THEN bytes ELSE d[n]]

RemoveFile(d, name) == [n \in DOMAIN d \ {name} |-> d[n]]

\* a path of the output directory names the file after its last '/'
FileExists(d, path) == SplitPop(path) \in DOMAIN d

\* the handlers that await a platform call.  The deleteAsync calls a rejected
\* clearAllPdfs left running count as one, and no clearAllPdfs is started before
\* they have settled
InFlight ==
    (IF pcLoad # "done" THEN 1 ELSE 0) + (IF pcCreate # "idle" THEN 1 ELSE 0)
    + Len(deleting) + (IF pcClear # "idle" \/ clearDeletes # <<>> THEN 1 ELSE 0)

\* a handler that awaits is started: alone, or as one more overlap
StartHandler ==
    /\ InFlight = 0 \/ overlaps < MaxOverlaps
    /\ overlaps' = IF InFlight = 0 THEN overlaps ELSE overlaps + 1

(***************************************************************************)
(* Images.  An asset is what the picker returns: its uri, the width and    *)
(* height it reports, and `bytes`, what reading the file at the uri gives  *)
(* (the encoding and the pixel size of the stored image).                  *)
(***************************************************************************)
Asset(uri, fmt, w, h) ==
    [uri |-> uri, width |-> w, height |-> h, bytes |-> [fmt |-> fmt, width |-> w, height |-> h]]

PhotoB == Asset(<<"b", ".", "P", "N", "G">>, "png", 800, 600)

PhotoC == Asset(<<"c", ".", "g", "i", "f">>, "gif", 100, 50)

\* a file named .png that holds JPEG data
PhotoX == Asset(<<"x", ".", "p", "n", "g">>, "jpeg", 640, 480)

\* resize: { width: 1600 }
ResizeWidth == 1600

\* manipulateAsync(uri, [{ resize: { width: 1600 } }], { format: JPEG }) resolved:
\* a new JPEG file of width 1600, the height scaled with it
Manipulated(asset) ==
    [uri    |-> <<"t", "m", "p", "/">> \o SubSeq(asset.uri, 1, 1) \o <<".", "j", "p", "g">>,
     bytes  |-> [fmt    |-> "jpeg",
                 width  |-> ResizeWidth,
                 height |-> (asset.bytes.height * ResizeWidth) \div asset.bytes.width]]

\* optimizeImage(uri): the manipulated image's uri, or on any error the uri given
optimizeImage(asset, ok) ==
    IF ok THEN Manipulated(asset) ELSE [uri |-> asset.uri, bytes |-> asset.bytes]

\* { ...asset, uri: await optimizeImage(asset.uri) }
OptimizedAsset(asset, ok) ==
    [asset EXCEPT !.uri = optimizeImage(asset, ok).uri,
                  !.bytes = optimizeImage(asset, ok).bytes]

ExtJpg == <<".", "j", "p", "g">>

ExtJpeg == <<".", "j", "p", "e", "g">>

ExtPng == <<".", "p", "n", "g">>

\* a variant that compares the suffix without toLowerCase()
EmbedderCaseSensitive(uri) ==
    IF EndsWith(uri, ExtJpg) \/ EndsWith(uri, ExtJpeg) THEN "jpg"
    ELSE IF EndsWith(uri, ExtPng) THEN "png"
    ELSE "none"

\* the embedder the suffix of img.uri selects: "jpg", "png" or "none"
Embedder(uri) ==
    IF EndsWith(ToLowerCase(uri), ExtJpg) \/ EndsWith(ToLowerCase(uri), ExtJpeg) THEN "jpg"
    ELSE IF EndsWith(ToLowerCase(uri), ExtPng) THEN "png"
    ELSE "none"

\* pdfDoc.embedJpg / pdfDoc.embedPng parse the bytes: they throw on bytes of
\* another encoding
EmbedSucceeds(embedder, bytes) ==
    \/ embedder = "jpg" /\ bytes.fmt = "jpeg"
    \/ embedder = "png" /\ bytes.fmt = "png"

\* a variant that gives addPage the height for the width
PageSwapped(bytes) == [width |-> bytes.height, height |-> bytes.width, image |-> bytes]

\* pdfDoc.addPage([embeddedImage.width, embeddedImage.height]) and page.drawImage
PageOf(bytes) == [width |-> bytes.width, height |-> bytes.height, image |-> bytes]

\* pdfDoc.save(): the encoded document
PdfBytes(doc) == [pages |-> doc]

(***************************************************************************)
(* Alerts.                                                                 *)
(***************************************************************************)
NoError == [message |-> "", uri |-> <<>>]

Alerted(title, message, error) == [title |-> title, message |-> message, error |-> error]

NoAlert == Alerted("", "", NoError)

CreateSuccessAlert == Alerted("Success", "PDF created and saved", NoError)

\* Alert.alert('Error', `Failed to create PDF: ${error.message}`)
CreateErrorAlert(error) == Alerted("Error", "Failed to create PDF: ", error)

\* new Error(`Unsupported image format: ${img.uri}`)
UnsupportedFormat(uri) == [message |-> "Unsupported image format: ", uri |-> uri]

\* what a rejected platform call throws: a message of the platform's
PlatformError == [message |-> "platform error", uri |-> <<>>]

\* what pdfDoc.embedJpg / embedPng throw on bytes they cannot parse
EmbedError == [message |-> "embed error", uri |-> <<>>]

ShareErrorAlert == Alerted("Error", "Failed to share PDF", NoError)

DeletedAlert == Alerted("Deleted", "PDF has been removed", NoError)

DeleteErrorAlert == Alerted("Error", "Could not delete the PDF", NoError)

ClearSuccessAlert == Alerted("Success", "All PDFs have been removed", NoError)

ClearErrorAlert == Alerted("Error", "Could not clear PDFs", NoError)

\* An alert is a modal dialog: no button of the screen can be pressed until the
\* user has acknowledged it.  The handlers already awaiting go on meanwhile.
DismissAlert ==
    /\ alert # NoAlert
    /\ alert' = NoAlert
    /\ UNCHANGED <<library, images, recentPdfs, isLoading, progress, disk, mediaAssets,
                   pcLoad, pcCreate, createLocals, deleting, pcClear, clearDeletes>>
    /\ UNCHANGED <<overlaps, optimizing, albumVars>>

(***************************************************************************)
(* loadRecentPdfs, called once by the effect of the first render.          *)
(***************************************************************************)
IsPdfName(file) == EndsWith(file, PdfSuffix)

\* a variant that maps every file, without the filter
PdfPathsOfUnfiltered(files) == [i \in 1..Len(files) |-> pdfDir \o files[i]]

\* files.filter((file) => file.endsWith('.pdf')).map(file => `${pdfDir}${file}`)
PdfPathsOf(files) ==
    LET pdfFiles == SelectSeq(files, IsPdfName)
    IN  [i \in 1..Len(pdfFiles) |-> pdfDir \o pdfFiles[i]]

\* await FileSystem.makeDirectoryAsync(pdfDir, { intermediates: true })
LoadMakeDirectory(ok) ==
    /\ pcLoad = "makeDirectory"
    /\ pcLoad' = IF ok THEN "readDirectory" ELSE "done"
    /\ UNCHANGED <<library, images, recentPdfs, isLoading, progress, alert, disk,
                   mediaAssets, pcCreate, createLocals, deleting, pcClear, clearDeletes>>
    /\ UNCHANGED overlaps
    /\ UNCHANGED <<optimizing, albumVars>>

\* await FileSystem.readDirectoryAsync(pdfDir), in whatever order it lists
LoadReadDirectory(ok) ==
    /\ pcLoad = "readDirectory"
    /\ pcLoad' = "done"
    /\ IF ok
       THEN \E files \in Perms(DOMAIN disk) : recentPdfs' = PdfPathsOf(files)
       ELSE UNCHANGED recentPdfs
    /\ UNCHANGED <<library, images, isLoading, progress, alert, disk,
                   mediaAssets, pcCreate, createLocals, deleting, pcClear, clearDeletes>>
    /\ UNCHANGED overlaps
    /\ UNCHANGED <<optimizing, albumVars>>

(***************************************************************************)
(* selectImages and the clear button.  Both buttons are disabled while     *)
(* isLoading.  The picker returns distinct assets of the library; each is  *)
(* optimized, and `failed` are the positions whose optimization throws.    *)
(***************************************************************************)
selectImages(assets, failed) ==
    /\ alert = NoAlert
    /\ ~isLoading
    /\ images' = [i \in 1..Len(assets) |-> OptimizedAsset(assets[i], i \notin failed)]
    /\ UNCHANGED <<library, recentPdfs, isLoading, progress, alert, disk, mediaAssets,
                   pcLoad, pcCreate, createLocals, deleting, pcClear, clearDeletes>>
    /\ UNCHANGED overlaps
    /\ UNCHANGED <<optimizing, albumVars>>

\* onPress={() => setImages([])}
ClearImages ==
    /\ alert = NoAlert
    /\ ~isLoading
    /\ images # <<>>
    /\ images' = <<>>
    /\ UNCHANGED <<library, recentPdfs, isLoading, progress, alert, disk, mediaAssets,
                   pcLoad, pcCreate, createLocals, deleting, pcClear, clearDeletes>>
    /\ UNCHANGED overlaps
    /\ UNCHANGED <<optimizing, albumVars>>

(***************************************************************************)
(* createPdf.  Its button is disabled while images is empty or isLoading.  *)
(***************************************************************************)
\* a variant of the catch block that also empties the registry
CreateCatchClearingRegistry(error) ==
    /\ isLoading' = FALSE
    /\ alert' = CreateErrorAlert(error)
    /\ pcCreate' = "idle"
    /\ imgIdx' = 0
    /\ pdfDoc' = <<>>
    /\ closurePdfs' = <<>>
    /\ pdfUri' = <<>>
    /\ recentPdfs' = <<>>

\* the catch block: setIsLoading(false) and the error alert
CreateCatch(error) ==
    /\ isLoading' = FALSE
    /\ alert' = CreateErrorAlert(error)
    /\ pcCreate' = "idle"
    /\ imgIdx' = 0
    /\ pdfDoc' = <<>>
    /\ closurePdfs' = <<>>
    /\ pdfUri' = <<>>
    /\ UNCHANGED recentPdfs

\* from the call to the first readAsStringAsync
CreatePdfStart ==
    /\ alert = NoAlert
    /\ ~isLoading
    /\ Len(images) # 0
    /\ StartHandler
    /\ NextNumber(PdfNumbers(BaseNames(recentPdfs))) <= MaxFileNo
    /\ isLoading' = TRUE
    /\ progress' = <<1, Len(images)>>
    /\ pcCreate' = "read"
    /\ imgIdx' = 1
    /\ pdfDoc' = <<>>
    /\ closurePdfs' = recentPdfs
    /\ pdfUri' = <<>>
    /\ UNCHANGED <<library, images, recentPdfs, alert, disk, mediaAssets, pcLoad,
                   deleting, pcClear, clearDeletes>>
    /\ UNCHANGED <<optimizing, albumVars>>

\* readAsStringAsync of images[i] settles; then the rest of the loop body, the
\* next iteration up to its read, or after the last image pdfDoc.save() up to
\* makeDirectoryAsync
CreateReadImage(readOk, saveOk) ==
    /\ pcCreate = "read"
    /\ LET img == images[imgIdx]
           embedder == Embedder(img.uri)
       IN  IF ~readOk
           THEN CreateCatch(PlatformError) /\ UNCHANGED progress
           ELSE IF embedder = "none"
           THEN CreateCatch(UnsupportedFormat(img.uri)) /\ UNCHANGED progress
           ELSE IF ~EmbedSucceeds(embedder, img.bytes)
           THEN CreateCatch(EmbedError) /\ UNCHANGED progress
           ELSE IF imgIdx < Len(images)
           THEN /\ pdfDoc' = Append(pdfDoc, PageOf(img.bytes))
                /\ imgIdx' = imgIdx + 1
                /\ progress' = <<imgIdx + 1, Len(images)>>
                /\ UNCHANGED <<recentPdfs, isLoading, alert, pcCreate, closurePdfs, pdfUri>>
           ELSE IF ~saveOk
           THEN CreateCatch(PlatformError) /\ UNCHANGED progress
           ELSE /\ pdfDoc' = Append(pdfDoc, PageOf(img.bytes))
                /\ pcCreate' = "makeDirectory"
                /\ UNCHANGED <<recentPdfs, isLoading, alert, imgIdx, closurePdfs, pdfUri,
                               progress>>
    /\ UNCHANGED <<library, images, disk, mediaAssets, pcLoad, deleting, pcClear,
                   clearDeletes>>
    /\ UNCHANGED overlaps
    /\ UNCHANGED <<optimizing, albumVars>>

\* makeDirectoryAsync settles; then the name is chosen and the write issued
CreateMakeDirectory(ok) ==
    /\ pcCreate = "makeDirectory"
    /\ IF ok
       THEN /\ pdfUri' = pdfDir \o generateNextPdfName(BaseNames(closurePdfs))
            /\ pcCreate' = "write"
            /\ UNCHANGED <<recentPdfs, isLoading, alert, imgIdx, pdfDoc, closurePdfs>>
       ELSE CreateCatch(PlatformError)
    /\ UNCHANGED <<library, images, progress, disk, mediaAssets, pcLoad, deleting,
                   pcClear, clearDeletes>>
    /\ UNCHANGED overlaps
    /\ UNCHANGED <<optimizing, albumVars>>

\* writeAsStringAsync settles; then createAssetAsync is issued
CreateWrite(ok) ==
    /\ pcCreate = "write"
    /\ IF ok
       THEN /\ disk' = WriteFile(disk, SplitPop(pdfUri), PdfBytes(pdfDoc))
            /\ pcCreate' = "createAsset"
            /\ UNCHANGED <<recentPdfs, isLoading, alert, imgIdx, pdfDoc, closurePdfs, pdfUri>>
       ELSE /\ CreateCatch(PlatformError)
            /\ UNCHANGED disk
    /\ UNCHANGED <<library, images, progress, mediaAssets, pcLoad, deleting, pcClear,
                   clearDeletes>>
    /\ UNCHANGED overlaps
    /\ UNCHANGED <<optimizing, albumVars>>

\* MediaLibrary.createAssetAsync settles; then setRecentPdfs((prev) => [pdfUri, ...prev])
CreateAsset(ok) ==
    /\ pcCreate = "createAsset"
    /\ IF ok
       THEN /\ mediaAssets' = mediaAssets \cup {pdfUri}
            /\ recentPdfs' = <<pdfUri>> \o recentPdfs
            /\ isLoading' = FALSE
            /\ alert' = CreateSuccessAlert
            /\ pcCreate' = "idle"
            /\ imgIdx' = 0
            /\ pdfDoc' = <<>>
            /\ closurePdfs' = <<>>
            /\ pdfUri' = <<>>
       ELSE /\ CreateCatch(PlatformError)
            /\ UNCHANGED mediaAssets
    /\ UNCHANGED <<library, images, progress, disk, pcLoad, deleting, pcClear,
                   clearDeletes>>
    /\ UNCHANGED overlaps
    /\ UNCHANGED <<optimizing, albumVars>>

(***************************************************************************)
(* sharePdf, deletePdf and clearAllPdfs, on the entries the list renders.  *)
(***************************************************************************)
\* await Sharing.shareAsync(pdfPath), with its catch
sharePdf(pdfPath, ok) ==
    /\ alert = NoAlert
    /\ pdfPath \in Range(recentPdfs)
    /\ alert' = IF ok THEN alert ELSE ShareErrorAlert
    /\ UNCHANGED <<library, images, recentPdfs, isLoading, progress, disk, mediaAssets,
                   pcLoad, pcCreate, createLocals, deleting, pcClear, clearDeletes>>
    /\ UNCHANGED overlaps
    /\ UNCHANGED <<optimizing, albumVars>>

\* FileSystem.deleteAsync(path) without { idempotent: true } rejects when there
\* is no file at the path, and may reject on a file that is there
DeleteResolves(d, path, ok) == ok /\ FileExists(d, path)

\* a variant that removes the first entry equal to pdfPath and the one after it
FilterOutFirst(prev, pdfPath) ==
    LET hit == {i \in 1..Len(prev) : prev[i] = pdfPath}
        first == CHOOSE i \in hit : \A j \in hit : i <= j
    IN  IF hit = {} THEN prev
        ELSE SubSeq(prev, 1, first - 1) \o SubSeq(prev, first + 2, Len(prev))

\* prev.filter((file) => file !== pdfPath)
FilterOut(prev, pdfPath) ==
    LET Keep(file) == file # pdfPath
    IN  SelectSeq(prev, Keep)

\* the call, up to the await of deleteAsync
deletePdfStart(pdfPath) ==
    /\ alert = NoAlert
    /\ pdfPath \in Range(recentPdfs)
    /\ StartHandler
    /\ deleting' = Append(deleting, pdfPath)
    /\ UNCHANGED <<library, images, recentPdfs, isLoading, progress, alert, disk,
                   mediaAssets, pcLoad, pcCreate, createLocals, pcClear, clearDeletes>>
    /\ UNCHANGED <<optimizing, albumVars>>

\* deleteAsync of the k-th pending deletePdf settles; then the filter, or the catch
deletePdfSettle(k, ok) ==
    /\ k \in 1..Len(deleting)
    /\ deleting' = SubSeq(deleting, 1, k - 1) \o SubSeq(deleting, k + 1, Len(deleting))
    /\ IF DeleteResolves(disk, deleting[k], ok)
       THEN /\ disk' = RemoveFile(disk, SplitPop(deleting[k]))
            /\ recentPdfs' = FilterOut(recentPdfs, deleting[k])
            /\ alert' = DeletedAlert
       ELSE /\ alert' = DeleteErrorAlert
            /\ UNCHANGED <<disk, recentPdfs>>
    /\ UNCHANGED <<library, images, isLoading, progress, mediaAssets, pcLoad, pcCreate,
                   createLocals, pcClear, clearDeletes>>
    /\ UNCHANGED overlaps
    /\ UNCHANGED <<optimizing, albumVars>>

\* recentPdfs.map((pdfPath) => FileSystem.deleteAsync(pdfPath)): one call per
\* entry, `awaited` while the Promise.all that holds it is pending
IssuedDeletes(paths) == [i \in 1..Len(paths) |-> [path |-> paths[i], awaited |-> TRUE]]

\* the call.  Promise.all of no promise is fulfilled at once: the registry is
\* set to [] before anything else runs
clearAllPdfsStart ==
    /\ alert = NoAlert
    /\ pcClear = "idle"
    /\ clearDeletes = <<>>
    /\ IF recentPdfs = <<>>
       THEN /\ recentPdfs' = <<>>
            /\ alert' = ClearSuccessAlert
            /\ UNCHANGED <<pcClear, clearDeletes, overlaps>>
       ELSE /\ StartHandler
            /\ clearDeletes' = IssuedDeletes(recentPdfs)
            /\ pcClear' = "awaiting"
            /\ UNCHANGED <<recentPdfs, alert>>
    /\ UNCHANGED <<library, images, isLoading, progress, disk, mediaAssets, pcLoad,
                   pcCreate, createLocals, deleting>>
    /\ UNCHANGED <<optimizing, albumVars>>

\* a variant of the catch that empties the registry
RegistryAfterClearFailureEmptied(prev) == <<>>

\* what the catch of clearAllPdfs does to the registry: nothing
RegistryAfterClearFailure(prev) == prev

\* the k-th deleteAsync of clearAllPdfs settles.  A rejection rejects the
\* Promise.all that awaits it (the catch runs, the other calls go on); the last
\* fulfilment fulfils it (setRecentPdfs([]))
clearDeleteSettle(k, ok) ==
    /\ k \in 1..Len(clearDeletes)
    /\ LET call == clearDeletes[k]
           rest == SubSeq(clearDeletes, 1, k - 1) \o SubSeq(clearDeletes, k + 1, Len(clearDeletes))
           resolved == DeleteResolves(disk, call.path, ok)
       IN  /\ disk' = IF resolved THEN RemoveFile(disk, SplitPop(call.path)) ELSE disk
           /\ IF call.awaited /\ ~resolved
              THEN /\ clearDeletes' = [i \in 1..Len(rest) |-> [rest[i] EXCEPT !.awaited = FALSE]]
                   /\ recentPdfs' = RegistryAfterClearFailure(recentPdfs)
                   /\ alert' = ClearErrorAlert
                   /\ pcClear' = "idle"
              ELSE IF call.awaited /\ \A i \in 1..Len(rest) : ~rest[i].awaited
              THEN /\ clearDeletes' = rest
                   /\ recentPdfs' = <<>>
                   /\ alert' = ClearSuccessAlert
                   /\ pcClear' = "idle"
              ELSE /\ clearDeletes' = rest
                   /\ UNCHANGED <<recentPdfs, alert, pcClear>>
    /\ UNCHANGED <<library, images, isLoading, progress, mediaAssets, pcLoad, pcCreate,
                   createLocals, deleting>>
    /\ UNCHANGED overlaps
    /\ UNCHANGED <<optimizing, albumVars>>

(***************************************************************************)
(* The first render.  recent_pdfs/ holds what earlier runs left there.     *)
(***************************************************************************)
\* a document an earlier run wrote
OldBytes == PdfBytes(<<PageOf([fmt |-> "jpeg", width |-> 1, height |-> 1])>>)

NotesTxt == <<"n", "o", "t", "e", "s", ".", "t", "x", "t">>

\* the directories the run may start with
OldDirs == {{NotesTxt}, {NotesTxt, PdfNameOf(1)}, {NotesTxt, PdfNameOf(2)}}

InitApp ==
    /\ images = <<>>
    /\ recentPdfs = <<>>
    /\ isLoading = FALSE
    /\ progress = <<0, 1>>
    /\ alert = NoAlert
    /\ mediaAssets = {}
    /\ pcLoad = "makeDirectory"
    /\ pcCreate = "idle"
    /\ imgIdx = 0
    /\ pdfDoc = <<>>
    /\ closurePdfs = <<>>
    /\ pdfUri = <<>>
    /\ deleting = <<>>
    /\ pcClear = "idle"
    /\ clearDeletes = <<>>
    /\ overlaps = 0
    /\ optimizing = <<>>

\* an album as MediaLibrary.getAlbumsAsync returns it
Album(id, title, assetCount) == [id |-> id, title |-> title, assetCount |-> assetCount]

\* useState(null), and no call pending
NoAlbum == Album(0, "", 0)

\* PDFConverter is not on screen
NoAlbumScreen ==
    /\ selectedImages = <<>>
    /\ availableImages = <<>>
    /\ isSelectModalVisible = FALSE
    /\ presses = 0
    /\ albums = <<>>
    /\ selectedAlbum = NoAlbum
    /\ pcAlbums = "done"
    /\ autoLoad = NoAlbum

Init ==
    /\ InitApp
    /\ NoAlbumScreen
    /\ library = {PhotoC}
    /\ \E names \in OldDirs : disk = [n \in names |-> OldBytes]

\* what the user and the platform can do once the screen is up
NextUse ==
    \/ \E assets \in DistinctSeqs(library, MaxPicked) :
         \E failed \in SUBSET (1..Len(assets)) : selectImages(assets, failed)
    \/ ClearImages
    \/ CreatePdfStart
    \/ \E readOk, saveOk \in BOOLEAN : CreateReadImage(readOk, saveOk)
    \/ \E ok \in BOOLEAN : CreateMakeDirectory(ok)
    \/ \E ok \in BOOLEAN : CreateWrite(ok)
    \/ \E ok \in BOOLEAN : CreateAsset(ok)
    \/ \E pdfPath \in Range(recentPdfs) : \E ok \in BOOLEAN : sharePdf(pdfPath, ok)
    \/ \E pdfPath \in Range(recentPdfs) : deletePdfStart(pdfPath)
    \/ \E k \in 1..Len(deleting) : \E ok \in BOOLEAN : deletePdfSettle(k, ok)
    \/ clearAllPdfsStart
    \/ \E k \in 1..Len(clearDeletes) : \E ok \in BOOLEAN : clearDeleteSettle(k, ok)
    \/ DismissAlert

NextApp ==
    \/ \E ok \in BOOLEAN : LoadMakeDirectory(ok)
    \/ \E ok \in BOOLEAN : LoadReadDirectory(ok)
    \/ NextUse

Next == NextApp

Spec == Init /\ [][Next]_vars

(***************************************************************************)
(* The runs in which loadRecentPdfs has succeeded before anything else     *)
(* happens: the registry holds the .pdf files of the directory.            *)
(***************************************************************************)
InitLoaded ==
    /\ NoAlbumScreen
    /\ library = {PhotoC}
    /\ \E names \in OldDirs :
         /\ disk = [n \in names |-> OldBytes]
         /\ \E files \in Perms(names) : recentPdfs = PdfPathsOf(files)
    /\ images = <<>>
    /\ isLoading = FALSE
    /\ progress = <<0, 1>>
    /\ alert = NoAlert
    /\ mediaAssets = {}
    /\ pcLoad = "done"
    /\ pcCreate = "idle"
    /\ imgIdx = 0
    /\ pdfDoc = <<>>
    /\ closurePdfs = <<>>
    /\ pdfUri = <<>>
    /\ deleting = <<>>
    /\ pcClear = "idle"
    /\ clearDeletes = <<>>
    /\ overlaps = 0
    /\ optimizing = <<>>

SpecLoaded == InitLoaded /\ [][NextUse]_vars

(***************************************************************************)
(* The assembly of a document on its own: the picker offers photos of      *)
(* every kind, the directory holds one earlier document, loadRecentPdfs    *)
(* has succeeded, and nothing is deleted.                                  *)
(***************************************************************************)
AssembleLibrary == {PhotoB, PhotoC, PhotoX}

InitAssemble ==
    /\ NoAlbumScreen
    /\ library = AssembleLibrary
    /\ disk = [n \in {NotesTxt, PdfNameOf(MaxFileNo - 1)} |-> OldBytes]
    /\ recentPdfs = <<pdfDir \o PdfNameOf(MaxFileNo - 1)>>
    /\ images = <<>>
    /\ isLoading = FALSE
    /\ progress = <<0, 1>>
    /\ alert = NoAlert
    /\ mediaAssets = {}
    /\ pcLoad = "done"
    /\ pcCreate = "idle"
    /\ imgIdx = 0
    /\ pdfDoc = <<>>
    /\ closurePdfs = <<>>
    /\ pdfUri = <<>>
    /\ deleting = <<>>
    /\ pcClear = "idle"
    /\ clearDeletes = <<>>
    /\ overlaps = 0
    /\ optimizing = <<>>

NextAssemble ==
    \/ \E assets \in DistinctSeqs(library, MaxPicked) :
         \E failed \in SUBSET (1..Len(assets)) : selectImages(assets, failed)
    \/ ClearImages
    \/ CreatePdfStart
    \/ \E readOk, saveOk \in BOOLEAN : CreateReadImage(readOk, saveOk)
    \/ \E ok \in BOOLEAN : CreateMakeDirectory(ok)
    \/ \E ok \in BOOLEAN : CreateWrite(ok)
    \/ \E ok \in BOOLEAN : CreateAsset(ok)
    \/ DismissAlert

SpecAssemble == InitAssemble /\ [][NextAssemble]_vars

(***************************************************************************)
(* The choice of the output name on its own: createPdf awaits              *)
(* makeDirectoryAsync, the registry having been loaded from a directory    *)
(* that holds `listed`.                                                    *)
(***************************************************************************)
OldFile7 == <<"O", "l", "d", " ">> \o PdfNameOf(7)

LowerFile9 == <<"f", "i", "l", "e", " ", "9">> \o PdfSuffix

File05 == FilePrefix \o <<"0", "5">> \o PdfSuffix

FileNoNumber == FilePrefix \o PdfSuffix

ReportPdf == <<"r", "e", "p", "o", "r", "t">> \o PdfSuffix

ListedNames ==
    {PdfNameOf(1), PdfNameOf(3), PdfNameOf(12), OldFile7, LowerFile9, File05,
     FileNoNumber, ReportPdf}

\* files a directory listing holds at most, in SpecNaming
MaxListed == 2

InitNaming ==
    /\ NoAlbumScreen
    /\ library = {PhotoC}
    /\ images = <<OptimizedAsset(PhotoC, TRUE)>>
    /\ isLoading = TRUE
    /\ progress = <<1, 1>>
    /\ alert = NoAlert
    /\ mediaAssets = {}
    /\ pcLoad = "done"
    /\ pcCreate = "makeDirectory"
    /\ imgIdx = 1
    /\ pdfDoc = <<PageOf(images[1].bytes)>>
    /\ pdfUri = <<>>
    /\ deleting = <<>>
    /\ pcClear = "idle"
    /\ clearDeletes = <<>>
    /\ overlaps = 0
    /\ optimizing = <<>>
    /\ \E listed \in {<<>>} \cup DistinctSeqs(ListedNames, MaxListed) :
         /\ disk = [n \in Range(listed) |-> OldBytes]
         /\ recentPdfs = PdfPathsOf(listed)
         /\ closurePdfs = recentPdfs

NextNaming ==
    \/ \E ok \in BOOLEAN : CreateMakeDirectory(ok)
    \/ \E ok \in BOOLEAN : CreateWrite(ok)
    \/ \E ok \in BOOLEAN : CreateAsset(ok)
    \/ DismissAlert

SpecNaming == InitNaming /\ [][NextNaming]_vars

\* the numbers N of the names that are `File <N>.pdf` from their first character on
ExactNumbers(names) ==
    {ParseInt(RegexMatchWhole(n)[1]) : n \in {m \in names : RegexMatchWhole(m) # <<>>}}

SetMax(S) == CHOOSE m \in S : \A x \in S : x <= m

\* C1: the name createPdf chooses is `File <max(N)+1>.pdf` over the N of the
\* existing names that match `File <N>.pdf` exactly, and `File 1.pdf` when no
\* name matches; a name that does not match exactly contributes no N.
C1_NameIsMaxOfExactMatchesPlusOne ==
    pdfUri # <<>> =>
        LET nums == ExactNumbers(Range(BaseNames(closurePdfs)))
        IN  pdfUri = pdfDir \o PdfNameOf(IF nums = {} THEN 1 ELSE SetMax(nums) + 1)

(***************************************************************************)
(* The steps the claims speak of, read off a pair of states.               *)
(***************************************************************************)
\* a step of createPdf
CreateStep == pcCreate' # pcCreate \/ imgIdx' # imgIdx

\* createPdf returns
CreateEnds == pcCreate # "idle" /\ pcCreate' = "idle"

CreateSucceeds == CreateEnds /\ alert' = CreateSuccessAlert

\* a step of deletePdf
DeleteStep == deleting' # deleting

DeleteSucceeds == Len(deleting') < Len(deleting) /\ alert' = DeletedAlert

\* sharePdf returns from its catch (its other return changes nothing)
ShareFails == alert = NoAlert /\ alert' = ShareErrorAlert

\* clearAllPdfs is called on a registry that is not empty
ClearStarts == pcClear = "idle" /\ pcClear' = "awaiting"

\* clearAllPdfs returns
ClearSettles ==
    \/ pcClear = "awaiting" /\ pcClear' = "idle"
    \/ pcClear = "idle" /\ pcClear' = "idle" /\ alert = NoAlert /\ alert' = ClearSuccessAlert

\* the number N of a path that ends in `File <N>.pdf`
FileNo(path) == ParseInt(RegexMatch(SplitPop(path))[1])

\* the .pdf files of the output directory, as paths
PdfsOnDisk == {pdfDir \o n : n \in {m \in DOMAIN disk : IsPdfName(m)}}

\* s without the entries equal to x, the others in their order
RECURSIVE Without(_, _)
Without(s, x) ==
    IF s = <<>> THEN <<>>
    ELSE IF Head(s) = x THEN Without(Tail(s), x)
    ELSE <<Head(s)>> \o Without(Tail(s), x)

C3_RegistryIsDirectory ==
    (/\ alert \in {CreateSuccessAlert, DeletedAlert, ClearSuccessAlert}
     /\ InFlight = 0)
        => Range(recentPdfs) = PdfsOnDisk

(***************************************************************************)
(* C4                                                                      *)
(***************************************************************************)
\* C4: no step of a createPdf that fails, no step of a deletePdf whose deleteAsync
\* fails, and no sharePdf changes the registry: every step of createPdf but its
\* successful return, every step of deletePdf but its successful return and the
\* failing return of sharePdf leave recentPdfs as it is (the successful return of
\* sharePdf changes no state at all).
C4_FailureLeavesRegistry ==
    [][(\/ CreateStep /\ ~CreateSucceeds
        \/ DeleteStep /\ ~DeleteSucceeds
        \/ ShareFails)
          => recentPdfs' = recentPdfs]_vars

\* a createPdf has failed after its file was written, over a registry with an entry
C4_Witness ==
    /\ alert = CreateErrorAlert(PlatformError)
    /\ recentPdfs # <<>>
    /\ Cardinality(PdfsOnDisk) > Cardinality(Range(recentPdfs))

(***************************************************************************)
(* C5                                                                      *)
(***************************************************************************)
\* C5 as stated: clearAllPdfs issues a deleteAsync for every entry of the registry,
\* and when it returns the registry is empty, also after a deletion failed.
C5_ClearAlwaysEmpties ==
    [][/\ ClearStarts => [i \in 1..Len(clearDeletes') |-> clearDeletes'[i].path] = recentPdfs
       /\ ClearSettles => recentPdfs' = <<>>]_vars

\* C5 as amended: clearAllPdfs issues a deleteAsync for every entry of the registry;
\* when it returns after every deletion succeeded the registry is empty, and when
\* it returns because a deletion failed the registry is as it was.
C5_ClearEmptiesOnSuccessOnly ==
    [][/\ ClearStarts => [i \in 1..Len(clearDeletes') |-> clearDeletes'[i].path] = recentPdfs
       /\ ClearSettles =>
            /\ alert' \in {ClearSuccessAlert, ClearErrorAlert}
            /\ alert' = ClearSuccessAlert => recentPdfs' = <<>>
            /\ alert' = ClearErrorAlert => recentPdfs' = recentPdfs]_vars

\* clearAllPdfs has returned from its catch, one file deleted and both entries kept
C5_Witness ==
    /\ alert = ClearErrorAlert
    /\ pcClear = "idle"
    /\ Len(recentPdfs) = 2
    /\ Cardinality(PdfsOnDisk) = 1

SupportedSuffix(uri) ==
    \E ext \in {ExtJpg, ExtJpeg, ExtPng} : EndsWith(ToLowerCase(uri), ext)

\* the position of the first image of imgs with an unsupported suffix, 0 if none
FirstUnsupported(imgs) ==
    IF \A i \in 1..Len(imgs) : SupportedSuffix(imgs[i].uri) THEN 0
    ELSE CHOOSE i \in 1..Len(imgs) :
            /\ ~SupportedSuffix(imgs[i].uri)
            /\ \A j \in 1..(i - 1) : SupportedSuffix(imgs[j].uri)

\* C7 as stated: a createPdf over a selection that holds an image with an
\* unsupported suffix returns with the unsupported-format error that names the
\* first such image; none of its steps goes past that image, writes a file or
\* changes the registry, and isLoading is false when it has returned.
C7_UnsupportedFailsWithFormatError ==
    [][(CreateStep /\ FirstUnsupported(images) # 0) =>
         /\ imgIdx' <= FirstUnsupported(images)
         /\ disk' = disk
         /\ recentPdfs' = recentPdfs
         /\ CreateEnds =>
              /\ isLoading' = FALSE
              /\ alert' = CreateErrorAlert(
                     UnsupportedFormat(images[FirstUnsupported(images)].uri))]_vars

\* C7 as amended: a createPdf over a selection that holds an image with an
\* unsupported suffix returns with an error, at the first such image or before it:
\* with the unsupported-format error that names the first such image, or with the
\* error of a read that failed, or before that image with the error of an embed
\* that failed.  None of its steps goes past that image, writes a file or changes
\* the registry, and isLoading is false when it has returned.  The
\* unsupported-format error is raised for no image with a supported suffix.
C7_UnsupportedFailsAtOrBeforeFirst ==
    [][/\ (CreateStep /\ FirstUnsupported(images) # 0) =>
            /\ imgIdx' <= FirstUnsupported(images)
            /\ pcCreate' \in {"read", "idle"}
            /\ disk' = disk
            /\ recentPdfs' = recentPdfs
            /\ CreateEnds =>
                 /\ isLoading' = FALSE
                 /\ alert'.title = "Error"
                 /\ imgIdx = FirstUnsupported(images) =>
                      alert'.error \in {UnsupportedFormat(images[imgIdx].uri), PlatformError}
                 /\ imgIdx < FirstUnsupported(images) =>
                      alert'.error \in {PlatformError, EmbedError}
       /\ (CreateEnds /\ alert'.error.message = UnsupportedFormat(<<>>).message) =>
            /\ imgIdx = FirstUnsupported(images)
            /\ alert'.error.uri = images[imgIdx].uri]_vars

\* createPdf has embedded b.PNG and failed at c.gif, the second image
C7_Witness ==
    /\ alert = CreateErrorAlert(UnsupportedFormat(PhotoC.uri))
    /\ Len(images) = 2
    /\ images[1].uri = PhotoB.uri
    /\ images[2].uri = PhotoC.uri
    /\ ~isLoading

(***************************************************************************)
(* C8                                                                      *)
(***************************************************************************)
\* C8: the document createPdf has assembled from its selection has one page for
\* each image, the pages in the order of the selection, the page of an image
\* holding that image and having its width and its height in pixels; the file
\* createPdf writes is that document.
C8_OnePagePerImage ==
    /\ pcCreate \in {"makeDirectory", "write", "createAsset"} =>
         /\ Len(images) # 0
         /\ Len(pdfDoc) = Len(images)
         /\ \A i \in 1..Len(images) :
              /\ SupportedSuffix(images[i].uri)
              /\ pdfDoc[i].image = images[i].bytes
              /\ pdfDoc[i].width = images[i].bytes.width
              /\ pdfDoc[i].height = images[i].bytes.height
    /\ pcCreate = "createAsset" => disk[SplitPop(pdfUri)] = PdfBytes(pdfDoc)

\* the file of a document of two pages of different sizes has been written
C8_Witness ==
    /\ pcCreate = "createAsset"
    /\ Len(images) = 2
    /\ images[1].uri = PhotoB.uri
    /\ pdfDoc[1].width = 800 /\ pdfDoc[1].height = 600
    /\ pdfDoc[2].width = ResizeWidth /\ pdfDoc[2].height = 1200

(***************************************************************************)
(* PDFConverter, the screen that browses albums.  An object the platform   *)
(* returns is told from every other object by `id` and `gen`: getAssetsAsync*)
(* builds new objects on every call, and `gen` numbers the calls.  The     *)
(* objects confirmImageSelection builds have the fields uri and fileName   *)
(* only, so that none of them is an object of availableImages.             *)
(***************************************************************************)
\* if (prev.length >= 20)
MaxImages == 20

\* photos the album holds beyond MaxImages
ExtraPhotos == 1

NumPhotos == MaxImages + ExtraPhotos

\* calls of getAssetsAsync that resolve
MaxLoads == 2

\* presses of a photo, of Confirm Selection and of a remove button
MaxPresses == 4

PhotoUri(id) == <<"p", "h", ":">> \o NumToString(id)

PhotoName(id) == <<"I", "M", "G">> \o NumToString(id)

\* mediaResult.assets[id] of the call numbered gen
AlbumAsset(id, gen) ==
    [id |-> id, gen |-> gen, uri |-> PhotoUri(id), filename |-> PhotoName(id)]

AlbumAssets(gen) == [id \in 1..NumPhotos |-> AlbumAsset(id, gen)]

\* the photos of the grid the user presses, and the remove buttons
PressedPhotos == {1, MaxImages, NumPhotos}

\* getAssetsAsync of this screen's album has resolved this many times
Loads == IF availableImages = <<>> THEN 0 ELSE availableImages[1].gen

\* asset.filename: undefined on an object that has no such field
FilenameOf(entry) ==
    IF "filename" \in DOMAIN entry THEN entry.filename ELSE <<"u", "n", "d", "e", "f", "i", "n", "e", "d">>

\* optimizeImage(uri): `ImageManiper` is not defined, so that evaluating the
\* arguments of manipulateAsync throws inside the try and the catch returns uri
AlbumOptimizeImage(uri) == uri

\* ({ uri: await optimizeImage(asset.uri), fileName: asset.filename })
OptimizedEntry(entry) ==
    [uri |-> AlbumOptimizeImage(entry.uri), fileName |-> FilenameOf(entry)]

LimitAlert == Alerted("Limit Reached", "You can select up to 20 images", NoError)

NoImagesAlert == Alerted("No Images", "Please select at least one image", NoError)

\* prev.includes(asset)
Includes(prev, asset) == \E i \in 1..Len(prev) : prev[i] = asset

\* prev.filter(item => item !== asset)
RECURSIVE FilterNot(_, _)
FilterNot(prev, asset) ==
    IF prev = <<>> THEN <<>>
    ELSE IF Head(prev) = asset THEN FilterNot(Tail(prev), asset)
    ELSE <<Head(prev)>> \o FilterNot(Tail(prev), asset)

AppIdle ==
    /\ library = {}
    /\ disk = <<>>
    /\ recentPdfs = <<>>
    /\ images = <<>>
    /\ isLoading = FALSE
    /\ progress = <<0, 1>>
    /\ alert = NoAlert
    /\ mediaAssets = {}
    /\ pcLoad = "done"
    /\ pcCreate = "idle"
    /\ imgIdx = 0
    /\ pdfDoc = <<>>
    /\ closurePdfs = <<>>
    /\ pdfUri = <<>>
    /\ deleting = <<>>
    /\ pcClear = "idle"
    /\ clearDeletes = <<>>
    /\ overlaps = 0
    /\ optimizing = <<>>

AppStays ==
    UNCHANGED <<library, images, recentPdfs, isLoading, progress, disk, mediaAssets,
                pcLoad, pcCreate, createLocals, deleting, pcClear, clearDeletes, overlaps,
                optimizing>>

\* getAssetsAsync settles: the call loadAlbums makes for the album it passes, or
\* the call the press of an album's button makes
loadAlbumImages(album, ok) ==
    /\ \/ autoLoad # NoAlbum /\ album = autoLoad
       \/ /\ autoLoad = NoAlbum
          /\ isSelectModalVisible
          /\ alert = NoAlert
          /\ \E i \in 1..Len(albums) : albums[i] = album
    /\ Loads < MaxLoads
    /\ availableImages' = IF ok THEN AlbumAssets(Loads + 1) ELSE availableImages
    /\ selectedAlbum' = IF ok THEN album ELSE selectedAlbum
    /\ autoLoad' = NoAlbum
    /\ UNCHANGED <<selectedImages, isSelectModalVisible, presses, alert, albums, pcAlbums>>
    /\ AppStays

\* a variant of the limit test with > for >=
OverLimitOff(prev) == Len(prev) > MaxImages

\* prev.length >= 20
OverLimit(prev) == Len(prev) >= MaxImages

\* the press of a photo of the grid
toggleImageSelection(asset) ==
    /\ isSelectModalVisible
    /\ alert = NoAlert
    /\ presses < MaxPresses
    /\ presses' = presses + 1
    /\ IF ~Includes(selectedImages, asset)
       THEN IF OverLimit(selectedImages)
            THEN /\ alert' = LimitAlert
                 /\ UNCHANGED selectedImages
            ELSE /\ selectedImages' = Append(selectedImages, asset)
                 /\ UNCHANGED alert
       ELSE /\ selectedImages' = FilterNot(selectedImages, asset)
            /\ UNCHANGED alert
    /\ UNCHANGED <<availableImages, isSelectModalVisible>>
    /\ AppStays
    /\ UNCHANGED albumListVars

\* the press of Confirm Selection
confirmImageSelection ==
    /\ isSelectModalVisible
    /\ alert = NoAlert
    /\ presses < MaxPresses
    /\ presses' = presses + 1
    /\ IF Len(selectedImages) = 0
       THEN /\ alert' = NoImagesAlert
            /\ UNCHANGED <<selectedImages, isSelectModalVisible>>
       ELSE /\ selectedImages' =
                  [i \in 1..Len(selectedImages) |-> OptimizedEntry(selectedImages[i])]
            /\ isSelectModalVisible' = FALSE
            /\ UNCHANGED alert
    /\ UNCHANGED availableImages
    /\ AppStays
    /\ UNCHANGED albumListVars

\* the press of the remove button of the preview at `index`, counted from 1:
\* updatedImages.splice(index, 1)
RemovePreviewImage(index) ==
    /\ ~isSelectModalVisible
    /\ alert = NoAlert
    /\ presses < MaxPresses
    /\ index \in 1..Len(selectedImages)
    /\ presses' = presses + 1
    /\ selectedImages' =
           SubSeq(selectedImages, 1, index - 1)
           \o SubSeq(selectedImages, index + 1, Len(selectedImages))
    /\ UNCHANGED <<availableImages, isSelectModalVisible, alert>>
    /\ AppStays
    /\ UNCHANGED albumListVars

\* the press of the add button: setIsSelectModalVisible(true)
OpenSelectModal ==
    /\ ~isSelectModalVisible
    /\ alert = NoAlert
    /\ isSelectModalVisible' = TRUE
    /\ UNCHANGED <<selectedImages, availableImages, presses, alert>>
    /\ AppStays
    /\ UNCHANGED albumListVars

\* onRequestClose: setIsSelectModalVisible(false)
CloseSelectModal ==
    /\ isSelectModalVisible
    /\ alert = NoAlert
    /\ isSelectModalVisible' = FALSE
    /\ UNCHANGED <<selectedImages, availableImages, presses, alert>>
    /\ AppStays
    /\ UNCHANGED albumListVars

\* the album of the device in SpecAlbum
CameraAlbum == Album(1, "Camera", NumPhotos)

\* the numbers of photos the user has selected before the run starts
StartCounts == {0, MaxImages - 1, MaxImages}

\* loadAlbums has listed the album and called loadAlbumImages for it; or the
\* modal after the first `count` photos of the album were pressed in their order
InitAlbum ==
    /\ AppIdle
    /\ presses = 0
    /\ albums = <<CameraAlbum>>
    /\ pcAlbums = "done"
    /\ \/ /\ selectedImages = <<>>
          /\ availableImages = <<>>
          /\ isSelectModalVisible = FALSE
          /\ selectedAlbum = NoAlbum
          /\ autoLoad = CameraAlbum
       \/ \E count \in StartCounts :
            /\ availableImages = AlbumAssets(1)
            /\ selectedImages = SubSeq(AlbumAssets(1), 1, count)
            /\ isSelectModalVisible = TRUE
            /\ selectedAlbum = CameraAlbum
            /\ autoLoad = NoAlbum

NextAlbum ==
    \/ \E ok \in BOOLEAN : loadAlbumImages(CameraAlbum, ok)
    \/ \E id \in PressedPhotos \cap (1..Len(availableImages)) :
         toggleImageSelection(availableImages[id])
    \/ confirmImageSelection
    \/ \E index \in {1, Len(selectedImages)} : RemovePreviewImage(index)
    \/ OpenSelectModal
    \/ CloseSelectModal
    \/ DismissAlert

SpecAlbum == InitAlbum /\ [][NextAlbum]_vars

(***************************************************************************)
(* C9                                                                      *)
(***************************************************************************)
\* a press of a photo of the grid
ToggleStep ==
    presses' = presses + 1 /\ isSelectModalVisible /\ isSelectModalVisible'
    /\ alert' # NoImagesAlert

\* C9: the selection never holds more than 20 images, and the press of a photo
\* that is not in the selection while it holds 20 is rejected: it shows the
\* limit alert and leaves the selection as it is.
C9_SelectionCapped ==
    [][/\ Len(selectedImages') <= 20
       /\ (ToggleStep /\ Len(selectedImages) = 20
             /\ Len(selectedImages') >= Len(selectedImages)) =>
            /\ selectedImages' = selectedImages
            /\ alert' = LimitAlert]_vars

\* the press of the 21st photo has been rejected with 20 selected
C9_Witness ==
    /\ alert = LimitAlert
    /\ Len(selectedImages) = 20
    /\ presses > 0

(***************************************************************************)
(* C10                                                                     *)
(***************************************************************************)
\* C10: after presses of photos, of Confirm Selection and of remove buttons,
\* the album's photos having been loaded once, no photo is in the selection more
\* than once, a photo being told by its uri; so the press of a photo that is in
\* the selection adds no second entry, also after confirmImageSelection.
C10_SelectionUniqueByPhoto ==
    Loads <= 1 =>
        \A i, j \in 1..Len(selectedImages) :
            selectedImages[i].uri = selectedImages[j].uri => i = j
(***************************************************************************)
(* selectImages step by step: the picker resolves, result.assets.map       *)
(* issues one optimizeImage call per asset, the calls settle in any order, *)
(* and when the last has settled Promise.all resolves and setImages runs.  *)
(* (selectImages above is the same handler from the picker's answer to     *)
(* setImages in one step.)  A call is pending, resolved (manipulateAsync   *)
(* resolved) or rejected (manipulateAsync rejected, the catch returned the *)
(* uri given); `at` is its rank among the settled calls.                   *)
(***************************************************************************)
\* App is the screen shown
AppOnScreen == ~isSelectModalVisible /\ albums = <<>>

PermissionAlert == Alerted("Permission Needed", "Please grant photo library access", NoError)

SelectErrorAlert == Alerted("Error", "Failed to select images", NoError)

\* result.assets.map(async (asset) => ...)
IssuedOptimizations(assets) ==
    [i \in 1..Len(assets) |-> [asset |-> assets[i], state |-> "pending", at |-> 0]]

Settled(calls) == {i \in 1..Len(calls) : calls[i].state # "pending"}

\* a variant that collects the results in the order in which the calls settle
BatchResultByCompletion(calls) ==
    [k \in 1..Len(calls) |->
        LET i == CHOOSE j \in 1..Len(calls) : calls[j].at = k
        IN  OptimizedAsset(calls[i].asset, calls[i].state = "resolved")]

\* what Promise.all resolves to: the results in the order of the calls
BatchResult(calls) ==
    [i \in 1..Len(calls) |-> OptimizedAsset(calls[i].asset, calls[i].state = "resolved")]

\* requestMediaLibraryPermissionsAsync or launchImageLibraryAsync ends the
\* handler: permission denied, or a rejection caught
selectImagesFails(denied) ==
    /\ AppOnScreen
    /\ alert = NoAlert
    /\ ~isLoading
    /\ optimizing = <<>>
    /\ alert' = IF denied THEN PermissionAlert ELSE SelectErrorAlert
    /\ UNCHANGED <<library, images, recentPdfs, isLoading, progress, disk, mediaAssets,
                   pcLoad, pcCreate, createLocals, deleting, pcClear, clearDeletes>>
    /\ UNCHANGED <<overlaps, optimizing, albumVars>>

\* launchImageLibraryAsync resolves with `assets`, not canceled
selectImagesStart(assets) ==
    /\ AppOnScreen
    /\ alert = NoAlert
    /\ ~isLoading
    /\ optimizing = <<>>
    /\ Len(assets) > 0
    /\ optimizing' = IssuedOptimizations(assets)
    /\ UNCHANGED <<library, images, recentPdfs, isLoading, progress, alert, disk,
                   mediaAssets, pcLoad, pcCreate, createLocals, deleting, pcClear,
                   clearDeletes>>
    /\ UNCHANGED <<overlaps, albumVars>>

\* manipulateAsync of call i settles; after the last one, setImages
optimizeSettle(i, ok) ==
    /\ i \in 1..Len(optimizing)
    /\ optimizing[i].state = "pending"
    /\ LET calls == [optimizing EXCEPT
                        ![i].state = IF ok THEN "resolved" ELSE "rejected",
                        ![i].at = Cardinality(Settled(optimizing)) + 1]
       IN  IF Settled(calls) = 1..Len(calls)
           THEN /\ images' = BatchResult(calls)
                /\ optimizing' = <<>>
           ELSE /\ optimizing' = calls
                /\ UNCHANGED images
    /\ UNCHANGED <<library, recentPdfs, isLoading, progress, alert, disk, mediaAssets,
                   pcLoad, pcCreate, createLocals, deleting, pcClear, clearDeletes>>
    /\ UNCHANGED <<overlaps, albumVars>>

\* App with the registry loaded and the picker offering photos of every kind, or
\* PDFConverter with its modal open
InitOptimize ==
    \/ /\ NoAlbumScreen
       /\ library = AssembleLibrary
       /\ disk = [n \in {NotesTxt} |-> OldBytes]
       /\ recentPdfs = <<>>
       /\ images = <<>>
       /\ isLoading = FALSE
       /\ progress = <<0, 1>>
       /\ alert = NoAlert
       /\ mediaAssets = {}
       /\ pcLoad = "done"
       /\ pcCreate = "idle"
       /\ imgIdx = 0
       /\ pdfDoc = <<>>
       /\ closurePdfs = <<>>
       /\ pdfUri = <<>>
       /\ deleting = <<>>
       /\ pcClear = "idle"
       /\ clearDeletes = <<>>
       /\ overlaps = 0
       /\ optimizing = <<>>
    \/ InitAlbum /\ isSelectModalVisible

NextOptimize ==
    \/ \E denied \in BOOLEAN : selectImagesFails(denied)
    \/ \E assets \in DistinctSeqs(library, MaxPicked) : selectImagesStart(assets)
    \/ \E i \in 1..Len(optimizing) : \E ok \in BOOLEAN : optimizeSettle(i, ok)
    \/ ClearImages
    \/ \E id \in PressedPhotos \cap (1..Len(availableImages)) :
         toggleImageSelection(availableImages[id])
    \/ confirmImageSelection
    \/ DismissAlert

SpecOptimize == InitOptimize /\ [][NextOptimize]_vars

(***************************************************************************)
(* C11                                                                     *)
(***************************************************************************)
\* Promise.all of selectImages resolves
BatchEnds == optimizing # <<>> /\ optimizing' = <<>>

\* Confirm Selection is pressed on a selection that is not empty
ConfirmStep == isSelectModalVisible /\ ~isSelectModalVisible' /\ presses' = presses + 1

\* C11: when the batch of selectImages ends, images has one entry for each asset
\* the picker returned, in the picker's order, whatever the order in which the
\* optimizeImage calls settled; the entry of an asset whose optimization failed
\* is the asset with its original uri, the entry of an asset whose optimization
\* succeeded is the asset with the uri of its optimized file, and no entry
\* depends on the outcome of another asset.  When confirmImageSelection ends,
\* where every optimization fails, selectedImages has one entry for each entry
\* it had, in the same order, with its original uri.
C11_BatchSurvivesFailures ==
    [][/\ BatchEnds =>
            /\ Len(images') = Len(optimizing)
            /\ \A i \in 1..Len(optimizing) :
                 /\ images'[i].width = optimizing[i].asset.width
                 /\ images'[i].height = optimizing[i].asset.height
                 /\ optimizing[i].state = "rejected" =>
                      images'[i] = optimizing[i].asset
                 /\ optimizing[i].state = "resolved" =>
                      /\ images'[i].uri = Manipulated(optimizing[i].asset).uri
                      /\ images'[i].bytes = Manipulated(optimizing[i].asset).bytes
                 /\ optimizing[i].state = "pending" =>
                      \/ images'[i] = optimizing[i].asset
                      \/ /\ images'[i].uri = Manipulated(optimizing[i].asset).uri
                         /\ images'[i].bytes = Manipulated(optimizing[i].asset).bytes
       /\ ConfirmStep =>
            /\ Len(selectedImages') = Len(selectedImages)
            /\ \A i \in 1..Len(selectedImages) :
                 selectedImages'[i].uri = selectedImages[i].uri]_vars

\* a batch has ended in which the first optimization failed and the second succeeded
C11_Witness ==
    /\ optimizing = <<>>
    /\ Len(images) = 2
    /\ images[1] = PhotoB
    /\ images[2].uri = Manipulated(PhotoC).uri

(***************************************************************************)
(* loadAlbums, called once by the effect of the first render of            *)
(* PDFConverter.                                                           *)
(***************************************************************************)
\* albums getAlbumsAsync returns at most
MaxAlbums == 3

\* the albums of the device: with and without assets, titles in and out of
\* priorityAlbums
DeviceAlbums ==
    {Album(1, "Camera", 4), Album(2, "Camera Roll", 2), Album(3, "DCIM", 0),
     Album(4, "Screenshots", 3), Album(5, "Downloads", 0), Album(6, "WhatsApp", 1)}

\* const priorityAlbums = ['Camera', 'Camera Roll', 'DCIM']
priorityAlbums == {"Camera", "Camera Roll", "DCIM"}

\* priorityAlbums.includes(a.title) ? -1 : 0
Priority(album) == IF album.title \in priorityAlbums THEN -1 ELSE 0

\* the comparator: bPriority - aPriority
CompareAlbums(a, b) == Priority(b) - Priority(a)

\* .filter(album => album.assetCount > 0)
FilterAlbums(loadedAlbums) ==
    LET HasAssets(album) == album.assetCount > 0
    IN  SelectSeq(loadedAlbums, HasAssets)

\* x put into the sorted t: behind every element the comparator does not put
\* after x
RECURSIVE InsertAlbum(_, _)
InsertAlbum(t, x) ==
    IF t = <<>> THEN <<x>>
    ELSE IF CompareAlbums(t[Len(t)], x) > 0
    THEN Append(InsertAlbum(SubSeq(t, 1, Len(t) - 1), x), t[Len(t)])
    ELSE Append(t, x)

\* Array.prototype.sort with the comparator: a pair the comparator puts in
\* order comes out in that order, a pair it ties keeps its order (the sort is stable)
RECURSIVE SortAlbums(_)
SortAlbums(s) ==
    IF s = <<>> THEN <<>>
    ELSE InsertAlbum(SortAlbums(SubSeq(s, 1, Len(s) - 1)), s[Len(s)])

AlbumPermissionAlert ==
    Alerted("Permission Required", "Please grant photo library access", NoError)

AlbumsErrorAlert == Alerted("Error", "Could not load photo albums", NoError)

\* requestPermissionsAsync settles
LoadAlbumsPermission(outcome) ==
    /\ pcAlbums = "permission"
    /\ IF outcome = "granted"
       THEN pcAlbums' = "getAlbums" /\ UNCHANGED alert
       ELSE /\ pcAlbums' = "done"
            /\ alert' = IF outcome = "denied" THEN AlbumPermissionAlert ELSE AlbumsErrorAlert
    /\ UNCHANGED <<selectedImages, availableImages, isSelectModalVisible, presses,
                   albums, selectedAlbum, autoLoad>>
    /\ AppStays

\* getAlbumsAsync settles; then filter, sort, setAlbums and the call of
\* loadAlbumImages for the first album
LoadAlbumsGet(loadedAlbums, ok) ==
    /\ pcAlbums = "getAlbums"
    /\ pcAlbums' = "done"
    /\ IF ok
       THEN LET filteredAlbums == SortAlbums(FilterAlbums(loadedAlbums))
            IN  /\ albums' = filteredAlbums
                /\ autoLoad' = IF Len(filteredAlbums) > 0 THEN filteredAlbums[1] ELSE NoAlbum
                /\ UNCHANGED alert
       ELSE /\ alert' = AlbumsErrorAlert
            /\ UNCHANGED <<albums, autoLoad>>
    /\ UNCHANGED <<selectedImages, availableImages, isSelectModalVisible, presses,
                   selectedAlbum>>
    /\ AppStays

\* the first render of PDFConverter
InitAlbums ==
    /\ AppIdle
    /\ selectedImages = <<>>
    /\ availableImages = <<>>
    /\ isSelectModalVisible = FALSE
    /\ presses = 0
    /\ albums = <<>>
    /\ selectedAlbum = NoAlbum
    /\ pcAlbums = "permission"
    /\ autoLoad = NoAlbum

NextAlbums ==
    \/ \E outcome \in {"granted", "denied", "rejected"} : LoadAlbumsPermission(outcome)
    \/ \E loadedAlbums \in DistinctSeqs(DeviceAlbums, MaxAlbums) :
         \E ok \in BOOLEAN : LoadAlbumsGet(loadedAlbums, ok)
    \/ \E album \in Range(albums) : \E ok \in BOOLEAN : loadAlbumImages(album, ok)
    \/ OpenSelectModal
    \/ CloseSelectModal
    \/ DismissAlert

SpecAlbums == InitAlbums /\ [][NextAlbums]_vars

(***************************************************************************)
(* C12                                                                     *)
(***************************************************************************)
\* the titles of the camera set
CameraTitles == {"Camera", "Camera Roll", "DCIM"}

\* C12: when loadAlbums has returned, every album listed has an asset, every
\* listed album with a title of the camera set stands before every listed album
\* with another title, and the album loadAlbums has loadAlbumImages load is the
\* first of the list.
C12_CameraAlbumsFirst ==
    pcAlbums = "done" =>
        /\ \A i \in 1..Len(albums) : albums[i].assetCount > 0
        /\ \A i, j \in 1..Len(albums) :
             (albums[i].title \in CameraTitles /\ albums[j].title \notin CameraTitles)
                => i < j
        /\ autoLoad # NoAlbum => autoLoad = albums[1]

(***************************************************************************)
(* loadRecentPdfs on its own, called again after it has returned (the      *)
(* effect of the first render run again), over any directory and any       *)
(* registry left by what ran before.                                       *)
(***************************************************************************)
ScanUpper == <<"S", "C", "A", "N", ".", "P", "D", "F">>

\* the files a directory may hold
ReloadFiles == {NotesTxt, ScanUpper, PdfNameOf(1), PdfNameOf(2), OldFile7}

\* files the directory holds at most, in SpecReload
MaxDirFiles == 3

\* an entry whose file is not in the directory
StalePath == pdfDir \o PdfNameOf(9)

\* what the registry may hold when loadRecentPdfs is called
HeldRegistries ==
    {<<>>, <<StalePath>>, <<pdfDir \o PdfNameOf(1), StalePath>>,
     <<pdfDir \o PdfNameOf(1), pdfDir \o PdfNameOf(1)>>}

InitReload ==
    /\ NoAlbumScreen
    /\ library = {}
    /\ \E names \in {S \in SUBSET ReloadFiles : Cardinality(S) <= MaxDirFiles} :
         disk = [n \in names |-> OldBytes]
    /\ recentPdfs \in HeldRegistries
    /\ images = <<>>
    /\ isLoading = FALSE
    /\ progress = <<0, 1>>
    /\ alert = NoAlert
    /\ mediaAssets = {}
    /\ pcLoad = "makeDirectory"
    /\ pcCreate = "idle"
    /\ imgIdx = 0
    /\ pdfDoc = <<>>
    /\ closurePdfs = <<>>
    /\ pdfUri = <<>>
    /\ deleting = <<>>
    /\ pcClear = "idle"
    /\ clearDeletes = <<>>
    /\ overlaps = 0
    /\ optimizing = <<>>

\* loadRecentPdfs is called again
LoadAgain ==
    /\ pcLoad = "done"
    /\ pcLoad' = "makeDirectory"
    /\ UNCHANGED <<library, images, recentPdfs, isLoading, progress, alert, disk,
                   mediaAssets, pcCreate, createLocals, deleting, pcClear, clearDeletes>>
    /\ UNCHANGED <<overlaps, optimizing, albumVars>>

NextReload ==
    \/ \E ok \in BOOLEAN : LoadMakeDirectory(ok)
    \/ \E ok \in BOOLEAN : LoadReadDirectory(ok)
    \/ LoadAgain

SpecReload == InitReload /\ [][NextReload]_vars

(***************************************************************************)
(* C13                                                                     *)
(***************************************************************************)
\* the name ends in ".pdf"
EndsInPdf(name) ==
    /\ Len(name) >= 4
    /\ SubSeq(name, Len(name) - 3, Len(name)) = <<".", "p", "d", "f">>

\* the registry holds the paths of the files of the directory whose name ends
\* in ".pdf", each once, and nothing else
RegistryIsPdfsOf(registry, directory) ==
    /\ Range(registry) = {pdfDir \o n : n \in {m \in DOMAIN directory : EndsInPdf(m)}}
    /\ \A i, j \in 1..Len(registry) : registry[i] = registry[j] => i = j

\* a step of loadRecentPdfs
LoadStep == pcLoad # "done" /\ pcLoad' # pcLoad

CreateFailsNow == CreateEnds /\ ~CreateSucceeds

\* C14: a createPdf that fails leaves the output directory as it was before
\* the attempt.  In the runs of SpecAssemble the registry lists every .pdf
\* file of the directory before the first attempt and nothing is deleted, so
\* the directory of the claim holds no .pdf file that the registry does not
\* reference when createPdf returns with its error alert.
C14_FailedCreateLeavesNoFile ==
    [][CreateFailsNow => PdfsOnDisk' \subseteq Range(recentPdfs')]_vars


(***************************************************************************)
(* C15.  The registry under interleavings of loadRecentPdfs, createPdf,    *)
(* deletePdf and clearAllPdfs.                                             *)
(***************************************************************************)
NoPathTwice(registry) ==
    \A i, j \in 1..Len(registry) : registry[i] = registry[j] => i = j

\* C15: however the initial loadRecentPdfs, createPdf, deletePdf and
\* clearAllPdfs interleave, the registry never contains the same path twice.
C15_RegistryHasNoPathTwice == NoPathTwice(recentPdfs)

=============================================================================
